---- MODULE Spec2Model ----
(***************************************************************************)
(* Model of the asynchronous inference server: the API gateway             *)
(* (app/main.py with its auth guard, rate limiter and idempotency cache)   *)
(* and the GPU worker task (app/tasks/gpu_worker.py) run by Celery with    *)
(* late acknowledgment, started-tracking and automatic retry.              *)
(*                                                                         *)
(* Time is a discrete clock `now`; datetime.now() reads it.  Durations of  *)
(* the program (the 60 s rate window, the 3600 s idempotency TTL) are      *)
(* scaled down to a few ticks.                                             *)
(***************************************************************************)
EXTENDS Integers, Sequences, FiniteSets, Bags, TLC

(* ------------------------------ bounds -------------------------------- *)
\* last instant of the clock
MaxTime == 2
\* timedelta(minutes=1) of the rate limiter, in ticks
WindowTicks == 2
\* RateLimiter(requests_per_minute=...), scaled down
RequestsPerMinute == 2
\* IdempotencyCache(ttl_seconds=...), in ticks
TtlTicks == 2
\* number of POST /v1/tasks requests the gateway receives
MaxRequests == 3
\* number of submissions whose celery_app.send_task raises
MaxBrokerErrors == 1
\* number of standalone RateLimiter.check_rate_limit calls
MaxChecks == 6
\* last instant of the clock of a RateLimiter or an IdempotencyCache used on
\* its own
MaxAge == 3

(* ------------------------------ values -------------------------------- *)
None == "None"

\* no task id: Python's None where a task_id is expected
NoTask == <<>>

\* settings.api_keys (the allowlist): the default key and a second one
api_keys == {"test-key-123", "key-B"}

\* the keys RateLimiter is called with
LimiterKeys == {"test-key-123", "key-B"}

\* every string that can reach the limiter as a key
AllKeys == LimiterKeys \cup api_keys \cup {"", "wrong-key"}

\* values of the x-api-key header of one client: absent, empty, unknown, or
\* its allowed key
Headers == {None, "", "wrong-key", "test-key-123"}

\* ModelRegistry._runners as filled by the @model_runner decorators
_runners == {"superres-x4", "image-scoring-v1"}

\* ModelRegistry.list_models()
list_models == _runners

\* TaskRequest.priority: Literal["high", "normal", "low"]
Priorities == {"high", "normal", "low"}

\* the priority a request body carries: none, one of the literal, another string
BodyPriorities == Priorities \cup {None, "urgent"}

\* request.model values sent by clients
RequestModels == {"superres-x4", "invalid-model"}

\* request.client_request_id values sent by clients
ClientRequestIds == {None, "req-1"}

\* request.callback_url values sent by clients
CallbackUrls == {None, "http://cb"}

VARIABLES
    now,          \* the wall clock, datetime.now()
    requests,     \* RateLimiter.requests: api key -> list of timestamps
    rl_accepted,  \* history: per key, the instants of the accepted checks
    rl_rejected,  \* history: per key, the number of checks answered 429
    rl_resets,    \* history: per key, the number of reset(key) calls
    n_checks,     \* history: number of standalone limiter calls made
    cache,        \* IdempotencyCache.cache: client_request_id -> <<task_id, timestamp>>
    sent,         \* broker: the messages published by celery_app.send_task, in order
    next_uuid,    \* the next value uuid.uuid4() returns
    req,          \* the submit_task handlers: request slot -> its position and locals
    settings,     \* app.config.settings, the fields read by the worker side
    broker,       \* broker: the bag of messages queued and not delivered
    backend,      \* result store: task_id -> [state, result]; no entry reads as PENDING
    worker,       \* the worker processes: slot -> position in the task and its locals
    blob,         \* blob store: key -> content
    task_failed,  \* metrics.task_failed
    runs,         \* history: task_id -> per execution, how it ended
    lost,         \* history: number of worker processes lost
    st,           \* a get_task_status handler: its position, its AsyncResult, its answer
    ret,          \* the value the last call made on an IdempotencyCache of its own returned
    _instances,   \* ModelRegistry._instances of one process: cache key -> runner object
    runner,       \* the runner objects constructed in that process, by identity
    thread,       \* the threads of that process: position in the registry call, locals
    metrics,      \* the gateway's Prometheus counters, by name and labels
    files,        \* the local storage directory: path -> the bytes of the file, in chunks
    io,           \* an uploader and a downloader of the local StorageService
    _instances_order  \* the keys of ModelRegistry._instances in insertion order (a dict keeps it)

vars == <<now, requests, rl_accepted, rl_rejected, rl_resets, n_checks,
          cache, sent, next_uuid, req,
          settings, broker, backend, worker, blob, task_failed, runs, lost,
          st, ret, _instances, runner, thread, metrics, files, io, _instances_order>>

\* the variables of the rate limiter and of the gateway
limiter_vars == <<requests, rl_accepted, rl_rejected, rl_resets, n_checks>>
gateway_vars == <<cache, sent, next_uuid, req, broker>>
worker_vars == <<settings, backend, worker, blob, task_failed, runs, lost>>
client_vars == <<st, ret>>
lib_vars == <<_instances, _instances_order, runner, thread>>
storage_vars == <<files, io>>

(* ------------------------------ metrics -------------------------------- *)

\* the counters of app.services.metrics the gateway imports, all at zero:
\* a counter without labels is a number, one with labels maps the label
\* values that were used to their count
NoMetrics ==
    [auth_failures |-> <<>>, rate_limit_exceeded |-> <<>>,
     task_submitted |-> <<>>, task_status_checked |-> <<>>]

\* the value of counter name for the label values l
value(m, name, l) == IF l \in DOMAIN m[name] THEN m[name][l] ELSE 0

\* counter.labels(...).inc()
inc(m, name, l) ==
    [m EXCEPT ![name] = [x \in DOMAIN m[name] \cup {l} |->
                            IF x = l THEN value(m, name, l) + 1 ELSE m[name][x]]]

(* ---------------------------- RateLimiter ------------------------------ *)

\* the timestamps of a key's bucket, [] when the key is not in the dict
Bucket(reqs, key) == IF key \in DOMAIN reqs THEN reqs[key] ELSE <<>>

\* f with key k bound to v (dict item assignment)
SetItem(f, k, v) == [x \in DOMAIN f \cup {k} |-> IF x = k THEN v ELSE f[x]]

\* f without key k (del f[k])
DelItem(f, k) == [x \in DOMAIN f \ {k} |-> f[x]]

\* the list comprehension of check_rate_limit: timestamp > minute_ago
trim(bucket, t) == SelectSeq(bucket, LAMBDA timestamp : timestamp > t - WindowTicks)

\* a limiter that accepts without recording the request: C18 fails on it
check_rate_limit_without_debit(reqs, key, t) ==
    LET trimmed == trim(Bucket(reqs, key), t) IN
    [ok |-> Len(trimmed) < RequestsPerMinute, requests |-> SetItem(reqs, key, trimmed)]

\* a limiter that records the rejected checks too: C29 fails on it
check_rate_limit_recording_rejected(reqs, key, t) ==
    LET trimmed == trim(Bucket(reqs, key), t) IN
    [ok |-> Len(trimmed) < RequestsPerMinute, requests |-> SetItem(reqs, key, Append(trimmed, t))]

\* RateLimiter.check_rate_limit(key) at instant t, under the lock:
\* ok = FALSE is HTTPException(429); requests is the dict afterwards
check_rate_limit(reqs, key, t) ==
    LET trimmed == trim(Bucket(reqs, key), t) IN
    IF Len(trimmed) >= RequestsPerMinute
    THEN [ok |-> FALSE, requests |-> SetItem(reqs, key, trimmed)]
    ELSE [ok |-> TRUE, requests |-> SetItem(reqs, key, Append(trimmed, t))]

\* a reset that drops every bucket: C12 fails on it
reset_every_key(reqs, key) == <<>>

\* RateLimiter.reset(key)
reset(reqs, key) == IF key \in DOMAIN reqs THEN DelItem(reqs, key) ELSE reqs

(* -------------------------- IdempotencyCache --------------------------- *)

\* IdempotencyCache._cleanup_expired at instant t: drops now - timestamp > ttl
_cleanup_expired(c, t) ==
    [k \in {x \in DOMAIN c : ~(t - c[x][2] > TtlTicks)} |-> c[k]]

\* a lookup whose hit stores the entry again with the instant of the hit:
\* C20 fails on it
get_task_id_refreshing(c, id, t) ==
    LET cleaned == _cleanup_expired(c, t) IN
    IF id \in DOMAIN cleaned /\ t - cleaned[id][2] < TtlTicks
    THEN [task_id |-> cleaned[id][1],
          cache |-> [cleaned EXCEPT ![id] = <<cleaned[id][1], t>>]]
    ELSE [task_id |-> NoTask,
          cache |-> [k \in DOMAIN cleaned \ {id} |-> cleaned[k]]]

\* a lookup that drops the expired entries and reports a miss for every
\* client_request_id: C30 fails on it
get_task_id_missing(c, id, t) ==
    [task_id |-> NoTask, cache |-> _cleanup_expired(c, t)]

\* IdempotencyCache.get_task_id(id) at instant t, under the lock:
\* the value returned (None on a miss) and the cache afterwards
get_task_id(c, id, t) ==
    LET cleaned == _cleanup_expired(c, t) IN
    IF id \in DOMAIN cleaned
    THEN IF t - cleaned[id][2] < TtlTicks
         THEN [task_id |-> cleaned[id][1], cache |-> cleaned]
         ELSE [task_id |-> NoTask, cache |-> DelItem(cleaned, id)]
    ELSE [task_id |-> NoTask, cache |-> cleaned]

\* IdempotencyCache.set_task_id(id, task_id) at instant t, under the lock
set_task_id(c, id, task_id, t) == SetItem(c, id, <<task_id, t>>)

(* ------------------------------- auth ---------------------------------- *)

\* a check that lets any non-empty key through: C4 fails on it
verify_api_key_any_present(api_key) == api_key # None /\ api_key # ""

\* verify_api_key: TRUE when the header passes, FALSE is HTTPException(401)
verify_api_key(api_key) ==
    IF api_key = None \/ api_key = "" THEN FALSE
    ELSE api_key \in api_keys

(* ------------------------- submit_task (gateway) ----------------------- *)

Requests == 1..MaxRequests

\* str(uuid.uuid4()): the n-th identifier drawn
uuid4(n) == <<"uuid", n>>

\* Python truthiness of request.client_request_id
Truthy(s) == s # None /\ s # ""

\* queue_name = f"gpu-{request.priority}"
queue_name(priority) ==
    CASE priority = "high" -> "gpu-high"
      [] priority = "normal" -> "gpu-normal"
      [] priority = "low" -> "gpu-low"

\* a gateway that publishes every message at the default priority: C3 fails on it
priority_number_unmapped(priority) == 5

\* {"high": 9, "normal": 5, "low": 1}[request.priority]
priority_number(priority) ==
    CASE priority = "high" -> 9
      [] priority = "normal" -> 5
      [] priority = "low" -> 1

\* the message celery_app.send_task publishes for a request; a fresh
\* message has been retried 0 times
send_task(task_id, model, callback_url, priority) ==
    [name |-> "app.tasks.gpu_worker.process_inference",
     task_id |-> task_id,
     model |-> model,
     callback_url |-> callback_url,
     queue |-> queue_name(priority),
     priority |-> priority_number(priority),
     retries |-> 0]

\* the broker with one more copy of message m queued
Queued(b, m) == b (+) SetToBag({m})

\* a gateway that skips the registry check: C5 fails on it
unknown_model_unchecked(model) == FALSE

\* request.model not in ModelRegistry.list_models()
unknown_model(model) == model \notin list_models

\* whether a body carrying this priority validates as a TaskRequest
validates(body_priority) == body_priority = None \/ body_priority \in Priorities

\* Field(default="normal"): TaskRequest.priority of a body that validates
default_priority(body_priority) ==
    IF body_priority = None THEN "normal" ELSE body_priority

\* a request slot before its request arrives
NewRequest ==
    [pc |-> "new", api_key |-> None, model |-> None, priority |-> None,
     body_priority |-> None,
     client_request_id |-> None, callback_url |-> None,
     task_id |-> NoTask, status |-> 0, replay |-> FALSE,
     published |-> 0, debits |-> 0, cache_reads |-> 0, cache_writes |-> 0,
     stored_at |-> -1, after |-> {}, live |-> {}]

\* a handler that stores the idempotency entry before it publishes:
\* C28 fails on it
stored_before_send_task(c, id, task_id, t) ==
    IF Truthy(id) THEN set_task_id(c, id, task_id, t) ELSE c

\* the idempotency cache when celery_app.send_task (line 121) raises: the
\* exception leaves submit_task before line 129, nothing was stored, and
\* FastAPI answers 500
send_task_raised(c, id, task_id, t) == c

\* the handler of slot r ends with an HTTP status
Respond(r, rec, code) == req' = [req EXCEPT ![r] = [rec EXCEPT !.pc = "done", !.status = code]]

\* lines 111-136 of submit_task, run without suspension up to the next await:
\* the model check, the task id, the enqueue and, without a
\* client_request_id, the 202 answer.  request.priority and
\* request.callback_url are first read here, and are drawn here.
Dispatch(r, rec, c) ==
    IF unknown_model(rec.model)
    THEN /\ Respond(r, rec, 400)
         /\ cache' = c
         /\ UNCHANGED <<sent, next_uuid, broker, metrics>>
    ELSE \E body_priority \in {p \in BodyPriorities : validates(p)}, cb \in CallbackUrls :
         LET task_id == uuid4(next_uuid)
             priority == default_priority(body_priority)
             out == [rec EXCEPT !.task_id = task_id, !.published = @ + 1,
                                !.body_priority = body_priority,
                                !.priority = priority, !.callback_url = cb]
         IN /\ next_uuid' = next_uuid + 1
            /\ \/ /\ sent' = Append(sent, send_task(task_id, rec.model, cb, priority))
                  /\ broker' = Queued(broker, send_task(task_id, rec.model, cb, priority))
                  /\ cache' = c
                  /\ IF Truthy(rec.client_request_id)
                     THEN /\ req' = [req EXCEPT ![r] = [out EXCEPT !.pc = "store"]]
                          /\ UNCHANGED metrics
                     ELSE /\ metrics' = inc(metrics, "task_submitted", <<rec.model, priority>>)
                          /\ Respond(r, out, 202)
               \/ /\ Cardinality({q \in Requests : req[q].status = 500}) < MaxBrokerErrors
                  /\ cache' = send_task_raised(c, rec.client_request_id, task_id, now)
                  /\ Respond(r, rec, 500)
                  /\ UNCHANGED <<sent, broker, metrics>>

\* a POST /v1/tasks arrives and its handler runs up to its first suspension
\* inside submit_task: FastAPI resolves Depends(verify_api_key), then
\* rate_limiter.check_rate_limit(api_key) runs under the limiter's lock.
\* request.client_request_id and request.model are read after that only, and
\* are recorded for the requests that get that far.
Receive(r, hdr, model, crid) ==
    /\ req[r].pc = "new"
    /\ \A q \in Requests : q < r => req[q].pc # "new"
    /\ LET rec == [req[r] EXCEPT !.api_key = hdr,
                                 !.after = {q \in Requests : req[q].pc = "done" /\ req[q].status = 202}]
       IN IF ~verify_api_key(hdr)
          THEN /\ Respond(r, rec, 401)
               /\ UNCHANGED <<requests, rl_accepted, rl_rejected, sent, next_uuid, broker,
                              metrics, cache>>
          ELSE LET res == check_rate_limit(requests, hdr, now) IN
               /\ requests' = res.requests
               /\ IF res.ok
                  THEN /\ rl_accepted' = [rl_accepted EXCEPT ![hdr] = Append(@, now)]
                       /\ UNCHANGED rl_rejected
                       /\ LET in == [rec EXCEPT !.debits = @ + 1, !.model = model,
                                                !.client_request_id = crid] IN
                          IF Truthy(crid)
                          THEN /\ req' = [req EXCEPT ![r] = [in EXCEPT !.pc = "lookup"]]
                               /\ UNCHANGED <<sent, next_uuid, broker, metrics, cache>>
                          ELSE Dispatch(r, in, cache)
                  ELSE /\ rl_rejected' = [rl_rejected EXCEPT ![hdr] = @ + 1]
                       /\ UNCHANGED <<rl_accepted, sent, next_uuid, broker, metrics, cache>>
                       /\ Respond(r, [rec EXCEPT !.client_request_id = crid], 429)
    /\ UNCHANGED <<now, rl_resets, n_checks, worker_vars, client_vars, storage_vars, lib_vars>>

\* a POST /v1/tasks arrives whose body does not validate as a TaskRequest:
\* FastAPI resolves Depends(verify_api_key) first, then answers the
\* validation error itself (422) and submit_task is not called
ReceiveInvalid(r, hdr, body_priority) ==
    /\ req[r].pc = "new"
    /\ \A q \in Requests : q < r => req[q].pc # "new"
    /\ ~validates(body_priority)
    /\ LET rec == [req[r] EXCEPT !.api_key = hdr, !.body_priority = body_priority,
                                 !.after = {q \in Requests : req[q].pc = "done" /\ req[q].status = 202}]
       IN IF ~verify_api_key(hdr) THEN Respond(r, rec, 401) ELSE Respond(r, rec, 422)
    /\ UNCHANGED <<now, limiter_vars, cache, sent, next_uuid, broker, worker_vars, client_vars, storage_vars, lib_vars, metrics>>

\* the earlier submissions of the same client_request_id that had answered 202
\* before r arrived and whose stored entry is younger than the TTL at instant t
LiveEarlier(r, t) ==
    {q \in req[r].after : /\ req[q].client_request_id = req[r].client_request_id
                          /\ req[q].cache_writes > 0
                          /\ t - req[q].stored_at < TtlTicks}

\* await idempotency_cache.get_task_id(client_request_id), then on to the next await
Lookup(r) ==
    /\ req[r].pc = "lookup"
    /\ LET res == get_task_id(cache, req[r].client_request_id, now)
           rec == [req[r] EXCEPT !.cache_reads = @ + 1, !.live = LiveEarlier(r, now)]
       IN IF res.task_id # NoTask
          THEN /\ cache' = res.cache
               /\ Respond(r, [rec EXCEPT !.task_id = res.task_id, !.replay = TRUE], 202)
               /\ UNCHANGED <<sent, next_uuid, broker, metrics>>
          ELSE Dispatch(r, rec, res.cache)
    /\ UNCHANGED <<now, limiter_vars, worker_vars, client_vars, storage_vars, lib_vars>>

\* await idempotency_cache.set_task_id(client_request_id, task_id), then the 202
Store(r) ==
    /\ req[r].pc = "store"
    /\ cache' = set_task_id(cache, req[r].client_request_id, req[r].task_id, now)
    /\ metrics' = inc(metrics, "task_submitted", <<req[r].model, req[r].priority>>)
    /\ Respond(r, [req[r] EXCEPT !.cache_writes = @ + 1, !.stored_at = now], 202)
    /\ UNCHANGED <<now, limiter_vars, sent, next_uuid, broker, worker_vars, client_vars, storage_vars, lib_vars>>

\* time passes
Tick ==
    /\ now < MaxTime
    /\ now' = now + 1
    /\ UNCHANGED <<limiter_vars, gateway_vars, worker_vars, client_vars, storage_vars, lib_vars, metrics>>

(* ------------------- RateLimiter used on its own ----------------------- *)

\* a caller awaits check_rate_limit(key)
LimiterCheck(key) ==
    /\ n_checks < MaxChecks
    /\ n_checks' = n_checks + 1
    /\ LET res == check_rate_limit(requests, key, now) IN
          /\ requests' = res.requests
          /\ IF res.ok
             THEN /\ rl_accepted' = [rl_accepted EXCEPT ![key] = Append(@, now)]
                  /\ UNCHANGED rl_rejected
             ELSE /\ rl_rejected' = [rl_rejected EXCEPT ![key] = @ + 1]
                  /\ UNCHANGED rl_accepted
    /\ UNCHANGED <<now, rl_resets, gateway_vars, worker_vars, client_vars, storage_vars, lib_vars, metrics>>

\* a caller awaits reset(key)
LimiterReset(key) ==
    /\ n_checks < MaxChecks
    /\ n_checks' = n_checks + 1
    /\ requests' = reset(requests, key)
    /\ rl_resets' = [rl_resets EXCEPT ![key] = @ + 1]
    /\ UNCHANGED <<now, rl_accepted, rl_rejected, gateway_vars, worker_vars, client_vars, storage_vars, lib_vars, metrics>>

(* --------------------- process_inference (worker) ---------------------- *)

\* number of tasks enqueued for the workers
MaxTasks == 1
\* number of worker processes
NumWorkers == 2
\* number of worker processes that die
MaxLost == 1
\* the elapsed times a Timer phase measures
Durations == {1, 2}

Workers == 1..NumWorkers

\* InferenceTask.retry_kwargs["max_retries"]
retry_kwargs_max_retries == 3

\* values settings.max_retries is configured with (3 is its default)
ConfiguredMaxRetries == {1, 3}

\* celery_app.conf.update(...): the options of celery_app.py as set
celery_conf ==
    [task_acks_late |-> TRUE, task_reject_on_worker_lost |-> TRUE,
     task_track_started |-> TRUE, task_max_retries |-> settings.max_retries]

\* a dict value: its Python type and what it holds
Value(kind, val) == [kind |-> kind, val |-> val]

\* what runner.run returns: SuperResolutionRunner.postprocess carries the PNG
\* as raw bytes, ImageScoringRunner.postprocess returns numbers and strings
runner_run(model) ==
    IF model = "superres-x4"
    THEN [k \in {"image_bytes", "size", "format", "scale_factor", "original_size"} |->
            IF k = "image_bytes" THEN Value("bytes", "png") ELSE Value("json", k)]
    ELSE [k \in {"scores", "overall_score", "quality_assessment", "metadata", "confidence"} |->
            Value("json", k)]

\* s3_key = f"results/{task_id}.png"
s3_key_of(task_id) == <<"results/", task_id, ".png">>

\* StorageService.upload_bytes on the local backend: the path it returns
upload_url(key) == <<"./data/", key>>

\* a store that keeps every upload as an object of its own: C24 fails on it
upload_bytes_versioned(store, data, key) ==
    SetItem(store, <<key[1], key[2], <<".png.", Cardinality(DOMAIN store)>>>>, data)

\* an upload that returns its URL without having written the object:
\* C31 fails on it
upload_bytes_unwritten(store, data, key) == store

\* StorageService.upload_bytes: the store with data written under key
upload_bytes(store, data, key) == SetItem(store, key, data)

\* a worker that forgets `del result["image_bytes"]`: C7 fails on it
externalized_keeping_bytes(result, task_id) ==
    LET key == s3_key_of(task_id)
    IN SetItem(SetItem(result, "s3_key", Value("str", key)),
               "s3_url", Value("str", upload_url(key)))

\* lines 93-102: the result dict after the artifact was uploaded
externalized(result, task_id) ==
    LET key == s3_key_of(task_id)
        withkey == SetItem(SetItem(result, "s3_key", Value("str", key)),
                           "s3_url", Value("str", upload_url(key)))
    IN DelItem(withkey, "image_bytes")

\* timer.get_all_timings() after the phases were stopped, total lasting d
get_all_timings(d) ==
    [ph \in {"total", "model_loading", "inference", "storage"} |->
        IF ph = "total" THEN d ELSE 0]

\* lines 115-120: the envelope
response_of(task_id, timing, result) ==
    [task_id |-> task_id, status |-> "SUCCESS", timing |-> timing, result |-> result]

\* what process_inference can raise before the envelope is built
RunOutcomes == {"ok", "InputFetchFailed", "SoftTimeLimitExceeded"}
UploadOutcomes == {"ok", "BlobUploadError"}

\* what httpx.post(callback_url, ...) can do: answer, or raise
CallbackOutcomes == {"2xx", "non-2xx", "ConnectError", "TimeoutException", "SoftTimeLimitExceeded"}

\* the exception classes of the worker that derive from Exception
\* (celery's SoftTimeLimitExceeded does; nothing here is a BaseException only)
ExceptionClasses ==
    {"InputFetchFailed", "BlobUploadError", "ConnectError", "TimeoutException",
     "SoftTimeLimitExceeded"}

\* httpx.post returns the response whatever its status (the code never calls
\* raise_for_status), and raises otherwise
post_raises(outcome) == outcome \notin {"2xx", "non-2xx"}

\* a handler that catches httpx errors only: C10 fails on it
callback_raises_past_httpx_errors(outcome) ==
    post_raises(outcome) /\ outcome \notin {"ConnectError", "TimeoutException"}

\* lines 123-129: whether an outcome of the POST leaves the try block as an
\* exception: `except Exception` catches every class deriving from Exception
callback_raises(outcome) ==
    post_raises(outcome) /\ outcome \notin ExceptionClasses

\* Python's None where the other values are objects (dicts, exceptions)
NoneObject == [kind |-> "NoneType"]

\* an exception instance of the class called name
Exception(name) == [kind |-> "exception", text |-> name]

IdleWorker ==
    [pc |-> "idle", msg |-> NoneObject, result |-> NoneObject, response |-> NoneObject,
     posts |-> 0, cb_outcome |-> None]

\* the state the result store gives for a task id (AsyncResult(id).state)
StateOf(t) == IF t \in DOMAIN backend THEN backend[t].state ELSE "PENDING"

\* the redis result backend (celery_app.py: backend=settings.celery_result_backend)
\* storing a task's state: a key-value backend reads the current entry first
\* and leaves it alone when it already says SUCCESS
store_result(b, task_id, state, result) ==
    IF task_id \in DOMAIN b /\ b[task_id].state = "SUCCESS"
    THEN b
    ELSE SetItem(b, task_id, [state |-> state, result |-> result])

\* the history of a task nobody has executed yet
NoRuns ==
    [started |-> 0, raised |-> 0, returned |-> 0, lost |-> 0, uploads |-> 0,
     last_exc |-> NoneObject]

\* runs with one more execution of worker w's task ended by raising exc
Raised(w, exc) ==
    [runs EXCEPT ![worker[w].msg.task_id] = [@ EXCEPT !.raised = @ + 1, !.last_exc = exc]]

\* the dispatcher side of a submission that passed the gateway's checks
\* (submit_task, lines 117-127), with the default priority
Enqueue(model, cb) ==
    /\ next_uuid <= MaxTasks
    /\ LET task_id == uuid4(next_uuid)
           priority == "normal"
       IN /\ sent' = Append(sent, send_task(task_id, model, cb, priority))
          /\ broker' = Queued(broker, send_task(task_id, model, cb, priority))
          /\ runs' = SetItem(runs, task_id, NoRuns)
    /\ next_uuid' = next_uuid + 1
    /\ UNCHANGED <<now, limiter_vars, client_vars, storage_vars, lib_vars, metrics, cache, req,
                   settings, backend, worker, blob, task_failed, lost>>

\* a worker takes a message; Celery's trace_task stores STARTED
\* (task_track_started) and calls before_start
Deliver(w, m) ==
    /\ worker[w].pc = "idle"
    /\ BagIn(m, broker)
    /\ m.task_id \in DOMAIN runs
    /\ broker' = broker (-) SetToBag({m})
    /\ backend' = store_result(backend, m.task_id, "STARTED", NoneObject)
    /\ runs' = [runs EXCEPT ![m.task_id].started = @ + 1]
    /\ worker' = [worker EXCEPT ![w] = [IdleWorker EXCEPT !.pc = "run", !.msg = m]]
    /\ UNCHANGED <<now, limiter_vars, client_vars, storage_vars, lib_vars, metrics, cache, sent, next_uuid, req,
                   settings, blob, task_failed, lost>>

\* process_inference raises exc (lines 133-141 count it and re-raise), and
\* Celery's autoretry wrapper either publishes the retry and reports RETRY or,
\* with the retries used up, lets exc through: FAILURE and on_failure
Raise(w, exc) ==
    LET m == worker[w].msg IN
    /\ IF m.retries + 1 > retry_kwargs_max_retries
       THEN /\ backend' = store_result(backend, m.task_id, "FAILURE", Exception(exc))
            /\ task_failed' = task_failed + 2
            /\ UNCHANGED broker
       ELSE /\ broker' = Queued(broker, [m EXCEPT !.retries = @ + 1])
            /\ backend' = store_result(backend, m.task_id, "RETRY", Exception(exc))
            /\ task_failed' = task_failed + 1
    /\ runs' = Raised(w, Exception(exc))
    /\ worker' = [worker EXCEPT ![w].pc = "ack"]

\* lines 65-90: the runner is fetched and run
Run(w, outcome) ==
    /\ worker[w].pc = "run"
    /\ IF outcome = "ok"
       THEN /\ worker' = [worker EXCEPT ![w].pc = "storage",
                                        ![w].result = runner_run(worker[w].msg.model)]
            /\ UNCHANGED <<broker, backend, task_failed, runs>>
       ELSE Raise(w, outcome)
    /\ UNCHANGED <<now, limiter_vars, client_vars, storage_vars, lib_vars, metrics, cache, sent, next_uuid, req, settings, blob, lost>>

\* lines 92-120: the artifact is uploaded and the envelope built
Storage(w, outcome, d) ==
    /\ worker[w].pc = "storage"
    /\ LET m == worker[w].msg
           has_bytes == "image_bytes" \in DOMAIN worker[w].result
       IN IF has_bytes /\ outcome # "ok"
          THEN /\ Raise(w, outcome)
               /\ UNCHANGED blob
          ELSE LET result == IF has_bytes THEN externalized(worker[w].result, m.task_id)
                                          ELSE worker[w].result
               IN /\ outcome = "ok"
                  /\ blob' = IF has_bytes
                             THEN upload_bytes(blob, worker[w].result["image_bytes"].val,
                                               s3_key_of(m.task_id))
                             ELSE blob
                  /\ worker' = [worker EXCEPT
                        ![w].pc = IF m.callback_url # None THEN "callback" ELSE "return",
                        ![w].result = result,
                        ![w].response = response_of(m.task_id, get_all_timings(d), result)]
                  /\ runs' = IF has_bytes THEN [runs EXCEPT ![m.task_id].uploads = @ + 1]
                                          ELSE runs
                  /\ UNCHANGED <<broker, backend, task_failed>>
    /\ UNCHANGED <<now, limiter_vars, client_vars, storage_vars, lib_vars, metrics, cache, sent, next_uuid, req, settings, lost>>

\* lines 122-129: the callback POST
Callback(w, outcome) ==
    /\ worker[w].pc = "callback"
    /\ IF callback_raises(outcome)
       THEN Raise(w, outcome)
       ELSE /\ worker' = [worker EXCEPT ![w].pc = "return", ![w].posts = @ + 1,
                                        ![w].cb_outcome = outcome]
            /\ UNCHANGED <<broker, backend, task_failed, runs>>
    /\ UNCHANGED <<now, limiter_vars, client_vars, storage_vars, lib_vars, metrics, cache, sent, next_uuid, req, settings, blob, lost>>

\* line 131: the envelope is returned and Celery stores it as SUCCESS
Return(w) ==
    /\ worker[w].pc = "return"
    /\ backend' = store_result(backend, worker[w].msg.task_id, "SUCCESS", worker[w].response)
    /\ runs' = [runs EXCEPT ![worker[w].msg.task_id].returned = @ + 1]
    /\ worker' = [worker EXCEPT ![w].pc = "ack"]
    /\ UNCHANGED <<now, limiter_vars, client_vars, storage_vars, lib_vars, metrics, cache, sent, next_uuid, req,
                   settings, broker, blob, task_failed, lost>>

\* acks_late: the message is acknowledged once the task function is over
Ack(w) ==
    /\ worker[w].pc = "ack"
    /\ worker' = [worker EXCEPT ![w] = IdleWorker]
    /\ UNCHANGED <<now, limiter_vars, client_vars, storage_vars, lib_vars, metrics, cache, sent, next_uuid, req, broker,
                   settings, backend, blob, task_failed, runs, lost>>

\* a worker that acknowledges the message of a lost process: C15 fails on it
acknowledged_on_worker_lost(b, m) == b

\* task_reject_on_worker_lost with acks_late: the broker after the message of
\* a lost worker process was rejected with requeue
reject_on_worker_lost(b, m) == Queued(b, m)

\* the worker process dies with its message unacknowledged:
\* reject_on_worker_lost puts the message back on its queue
WorkerLost(w) ==
    /\ worker[w].pc # "idle"
    /\ lost < MaxLost
    /\ lost' = lost + 1
    /\ broker' = reject_on_worker_lost(broker, worker[w].msg)
    /\ runs' = [runs EXCEPT ![worker[w].msg.task_id].lost = @ + 1]
    /\ worker' = [worker EXCEPT ![w] = IdleWorker]
    /\ UNCHANGED <<now, limiter_vars, client_vars, storage_vars, lib_vars, metrics, cache, sent, next_uuid, req,
                   settings, backend, blob, task_failed>>

(* ------------------- get_task_status (gateway) ------------------------- *)

\* what the result backend answers for a task id it has no entry for
PendingMeta == [state |-> "PENDING", result |-> NoneObject]

\* backend.get_task_meta(task_id): the entry of the result store now
get_task_meta(task_id) ==
    IF task_id \in DOMAIN backend THEN backend[task_id] ELSE PendingMeta

\* the states with which an AsyncResult keeps the meta it has read
READY_STATES == {"SUCCESS", "FAILURE", "REVOKED"}

\* a handler that is not running: AsyncResult._cache is empty (cached = <<>>)
NoStatus ==
    [pc |-> "idle", at |-> 1, task_id |-> NoTask, cached |-> <<>>, reads |-> <<>>,
     response |-> [status |-> None, has |-> {}]]

\* AsyncResult._get_task_meta(): the cached meta if there is one, else a read
\* of the result store
_get_task_meta(s) ==
    IF s.cached # <<>> THEN s.cached[1] ELSE get_task_meta(s.task_id)

\* AsyncResult._maybe_set_cache(meta): only a ready state is kept
_maybe_set_cache(s, meta) ==
    IF s.cached = <<>> /\ meta.state \in READY_STATES
    THEN [s EXCEPT !.cached = <<meta>>]
    ELSE s

\* str(task.info): the text of what the result store holds as result, an
\* exception with FAILURE and RETRY, the envelope with SUCCESS, else None
str(result, state) ==
    CASE state \in {"FAILURE", "RETRY"} -> result.text
      [] state = "SUCCESS" -> "{...}"
      [] OTHER -> "None"

\* the status_data each branch of lines 146-180 builds from a meta
status_data(branch, meta) ==
    CASE branch = "SUCCESS" ->
            [status |-> "SUCCESS", has |-> {"timing", "result"},
             timing |-> meta.result.timing, result |-> meta.result.result]
      [] branch \in {"FAILURE", "RETRY"} ->
            [status |-> branch, has |-> {"error"}, error |-> str(meta.result, meta.state)]
      [] branch \in {"PENDING", "STARTED"} -> [status |-> branch, has |-> {}]
      [] OTHER -> [status |-> meta.state, has |-> {}]

\* the comparisons of task.state in the order of the if/elif chain, then else
Branches == <<"PENDING", "STARTED", "SUCCESS", "FAILURE", "RETRY", "else">>

\* GET /v1/tasks/{task_id} arrives (auth passed): line 144 builds the
\* AsyncResult, which reads nothing yet
StatusStart(task_id) ==
    /\ st.pc = "idle"
    /\ st' = [st EXCEPT !.pc = "state", !.task_id = task_id]
    /\ UNCHANGED <<now, limiter_vars, gateway_vars, worker_vars, ret, storage_vars, lib_vars, metrics>>

\* one evaluation of task.state, task.result or task.info: each one reads the
\* result store unless the AsyncResult holds a ready meta.
\* With pc "state" the comparison Branches[at] of the if/elif chain is made;
\* with pc "info" the str(task.info) of the RETRY branch is evaluated
StatusRead ==
    /\ st.pc \in {"state", "info"}
    /\ LET meta == _get_task_meta(st)
           s == [_maybe_set_cache(st, meta) EXCEPT !.reads = Append(@, meta)]
           Answer(data) == st' = [s EXCEPT !.pc = "done", !.response = data]
       IN CASE st.pc = "info" -> Answer(status_data("RETRY", meta))
            [] st.pc = "state" /\ Branches[st.at] = "else" -> Answer(status_data("else", meta))
            [] st.pc = "state" /\ Branches[st.at] = meta.state ->
                  IF meta.state = "RETRY"
                  THEN st' = [s EXCEPT !.pc = "info"]
                  ELSE Answer(status_data(meta.state, meta))
            [] OTHER -> st' = [s EXCEPT !.at = @ + 1]
    /\ metrics' = IF st'.pc = "done"
                  THEN inc(metrics, "task_status_checked", st'.response.status)
                  ELSE metrics
    /\ UNCHANGED <<now, limiter_vars, gateway_vars, worker_vars, ret, storage_vars, lib_vars>>

(* ------------- IdempotencyCache used on its own, by content ------------ *)

\* number of calls made on the cache
MaxCalls == 3

\* request mappings as they are written, a sequence of (key, value) items in
\* the order of the literal; the first two are one dict in two key orders
RequestData ==
    { << <<"model", "superres-x4">>, <<"input", "img">> >>,
      << <<"input", "img">>, <<"model", "superres-x4">> >>,
      << <<"model", "superres-x4">> >>,
      << <<"model", "image-scoring-v1">>, <<"input", "img">> >> }

\* the keys of the request mappings in the order sorted() gives them
KeyOrder == <<"input", "model">>

\* the items of data ordered by key, as json.dumps(data, sort_keys=True) writes them
sorted_items(data) ==
    LET rank(k) == CHOOSE i \in DOMAIN KeyOrder : KeyOrder[i] = k
        order == CHOOSE f \in [DOMAIN data -> DOMAIN data] :
                    /\ \A i, j \in DOMAIN data : i # j => f[i] # f[j]
                    /\ \A i, j \in DOMAIN data :
                          i < j => rank(data[f[i]][1]) < rank(data[f[j]][1])
    IN [i \in DOMAIN data |-> data[order[i]]]

\* json.dumps without sort_keys writes the items in the order of the dict:
\* C13 fails on it
unsorted_hash(data) == <<"sha256", data>>

\* IdempotencyCache._compute_hash(data): the digest, one per JSON text
_compute_hash(data) == <<"sha256", sorted_items(data)>>

\* the dict a written mapping denotes
AsDict(data) ==
    [k \in {data[i][1] : i \in DOMAIN data} |->
        data[CHOOSE i \in DOMAIN data : data[i][1] = k][2]]

\* before any call on the cache: nothing returned, nothing stored
NoReturn ==
    [op |-> "none", written |-> <<>>, arg |-> <<>>, at |-> 0, value |-> NoTask,
     calls |-> 0, log |-> <<>>]

\* await cache.set_by_content(request_data, task_id)
SetByContent(request_data, task_id) ==
    /\ ret.calls < MaxCalls
    /\ cache' = set_task_id(cache, _compute_hash(request_data), task_id, now)
    /\ ret' = [op |-> "set_by_content", written |-> request_data,
               arg |-> AsDict(request_data), at |-> now, value |-> NoTask,
               calls |-> ret.calls + 1,
               log |-> Append(ret.log, [written |-> request_data,
                                        data |-> AsDict(request_data),
                                        task_id |-> task_id, at |-> now])]
    /\ UNCHANGED <<now, limiter_vars, sent, next_uuid, req, broker, worker_vars, st, storage_vars, lib_vars, metrics>>

\* await cache.get_by_content(request_data)
GetByContent(request_data) ==
    /\ ret.calls < MaxCalls
    /\ LET res == get_task_id(cache, _compute_hash(request_data), now) IN
          /\ cache' = res.cache
          /\ ret' = [ret EXCEPT !.op = "get_by_content", !.written = request_data,
                                !.arg = AsDict(request_data), !.at = now,
                                !.value = res.task_id, !.calls = @ + 1]
    /\ UNCHANGED <<now, limiter_vars, sent, next_uuid, req, broker, worker_vars, st, storage_vars, lib_vars, metrics>>

(* ---------------- IdempotencyCache used on its own, by id -------------- *)

\* the ids a caller uses
CacheIds == {"req-1", "req-2"}

\* await cache.get_task_id(client_request_id)
GetTaskId(client_request_id) ==
    /\ ret.calls < MaxCalls
    /\ LET res == get_task_id(cache, client_request_id, now) IN
          /\ cache' = res.cache
          /\ ret' = [ret EXCEPT !.op = "get_task_id", !.at = now,
                                !.value = res.task_id, !.calls = @ + 1]
    /\ UNCHANGED <<now, limiter_vars, sent, next_uuid, req, broker, worker_vars, st, storage_vars, lib_vars, metrics>>

\* await cache.set_task_id(client_request_id, task_id)
SetTaskId(client_request_id, task_id) ==
    /\ ret.calls < MaxCalls
    /\ cache' = set_task_id(cache, client_request_id, task_id, now)
    /\ ret' = [ret EXCEPT !.op = "set_task_id", !.at = now,
                          !.value = NoTask, !.calls = @ + 1]
    /\ UNCHANGED <<now, limiter_vars, sent, next_uuid, req, broker, worker_vars, st, storage_vars, lib_vars, metrics>>

\* time passes for an object used on its own
Elapse ==
    /\ now < MaxAge
    /\ now' = now + 1
    /\ UNCHANGED <<limiter_vars, gateway_vars, worker_vars, client_vars, storage_vars, lib_vars, metrics>>

(* ---------------------------- ModelRegistry ---------------------------- *)

\* number of threads that call the registry of one process
NumThreads == 2
\* number of get_or_create_runner calls one thread makes
MaxThreadCalls == 2
\* number of ModelRegistry.cleanup calls one thread makes
MaxCleanupCalls == 1
\* number of runner objects constructed in the process
MaxRunners == 3

Threads == 1..NumThreads

\* config.model_name and config.gpu_id of the calls
ConfigModels == {"superres-x4", "invalid-model"}
GpuIds == {0, 1}

\* the arguments of ModelRegistry.cleanup, None where one is left out
CleanupModels == {None, "superres-x4"}
CleanupGpuIds == {-1} \cup GpuIds
NoGpu == -1

\* f"{config.model_name}_{config.gpu_id}": gpu_id is an integer, so the text
\* after the last underscore gives it back and the key is one per pair
cache_key(model_name, gpu_id) == <<model_name, gpu_id>>

\* no runner object
NoRunner == 0

IdleThread ==
    [pc |-> "idle", op |-> "none", model_name |-> None, gpu_id |-> NoGpu, made |-> NoRunner,
     returned |-> NoRunner, raised |-> None, calls |-> 0, cleanup_calls |-> 0,
     holds |-> NoRunner, steps |-> <<>>]

\* BaseModelRunner.__init__: model None, is_loaded False
BaseModelRunner(model_name, gpu_id) ==
    [model_name |-> model_name, gpu_id |-> gpu_id, model |-> "None",
     is_loaded |-> FALSE, load_calls |-> 0, runs |-> 0, cleanups |-> 0, evicted |-> FALSE]

\* a cleanup that forgets the flag: C23 fails on it
runner_cleanup_keeping_flag(o) ==
    [o EXCEPT !.model = IF o.model = "None" THEN "None" ELSE "deleted",
              !.cleanups = @ + 1]

\* whether BaseModelRunner.cleanup raises on object o: `del self.model`
\* (line 62) removes the attribute, and the next `self.model is not None`
\* (line 61) raises AttributeError
cleanup_raises(o) == o.model = "deleted"

\* BaseModelRunner.cleanup on object o: the model attribute is deleted when
\* it holds a model, is_loaded becomes False.  On an object whose attribute
\* is already deleted the call raises at line 61 and changes nothing
runner_cleanup(o) ==
    IF o.model = "deleted"
    THEN [o EXCEPT !.cleanups = @ + 1]
    ELSE [o EXCEPT !.model = IF o.model = "None" THEN "None" ELSE "deleted",
                   !.is_loaded = FALSE, !.cleanups = @ + 1]

\* a thread calls ModelRegistry.get_or_create_runner(config)
GetOrCreate(t, model_name, gpu_id) ==
    /\ thread[t].pc = "idle"
    /\ thread[t].calls < MaxThreadCalls
    /\ thread' = [thread EXCEPT ![t] = [IdleThread EXCEPT
                      !.pc = "check", !.op = "get_or_create_runner",
                      !.model_name = model_name, !.gpu_id = gpu_id,
                      !.calls = thread[t].calls + 1,
                      !.cleanup_calls = thread[t].cleanup_calls,
                      !.holds = thread[t].holds]]
    /\ UNCHANGED <<now, limiter_vars, gateway_vars, worker_vars, client_vars, storage_vars, metrics,
                   _instances, _instances_order, runner>>

\* line 36: if cache_key not in cls._instances
CheckCached(t) ==
    /\ thread[t].pc = "check"
    /\ thread' = [thread EXCEPT ![t].pc =
                      IF cache_key(thread[t].model_name, thread[t].gpu_id) \in DOMAIN _instances
                      THEN "return" ELSE "create"]
    /\ UNCHANGED <<now, limiter_vars, gateway_vars, worker_vars, client_vars, storage_vars, metrics,
                   _instances, _instances_order, runner>>

\* create_runner(config): ValueError for a name that is not registered, else
\* the constructor of the runner class runs
CreateRunner(t) ==
    /\ thread[t].pc = "create"
    /\ IF thread[t].model_name \notin _runners
       THEN /\ thread' = [thread EXCEPT ![t].pc = "idle", ![t].raised = "ValueError"]
            /\ UNCHANGED runner
       ELSE /\ Len(runner) < MaxRunners
            /\ runner' = Append(runner, BaseModelRunner(thread[t].model_name, thread[t].gpu_id))
            /\ thread' = [thread EXCEPT ![t].pc = "store", ![t].made = Len(runner) + 1]
    /\ UNCHANGED <<now, limiter_vars, gateway_vars, worker_vars, client_vars, storage_vars, metrics, _instances, _instances_order>>

\* line 37: cls._instances[cache_key] = the runner just constructed
StoreRunner(t) ==
    /\ thread[t].pc = "store"
    /\ _instances' = SetItem(_instances, cache_key(thread[t].model_name, thread[t].gpu_id),
                             thread[t].made)
    /\ _instances_order' =
          IF cache_key(thread[t].model_name, thread[t].gpu_id) \in DOMAIN _instances
          THEN _instances_order
          ELSE Append(_instances_order, cache_key(thread[t].model_name, thread[t].gpu_id))
    /\ thread' = [thread EXCEPT ![t].pc = "return"]
    /\ UNCHANGED <<now, limiter_vars, gateway_vars, worker_vars, client_vars, storage_vars, metrics, runner>>

\* line 40: return cls._instances[cache_key], KeyError when the key has gone
ReturnRunner(t) ==
    /\ thread[t].pc = "return"
    /\ LET key == cache_key(thread[t].model_name, thread[t].gpu_id) IN
       thread' = IF key \in DOMAIN _instances
                 THEN [thread EXCEPT ![t].pc = "idle", ![t].returned = _instances[key],
                                     ![t].holds = _instances[key]]
                 ELSE [thread EXCEPT ![t].pc = "idle", ![t].raised = "KeyError"]
    /\ UNCHANGED <<now, limiter_vars, gateway_vars, worker_vars, client_vars, storage_vars, metrics,
                   _instances, _instances_order, runner>>

\* a cleanup that takes no notice of its arguments: C22 fails on it
cleanup_every_key(insts, model_name, gpu_id) == DOMAIN insts

\* the keys ModelRegistry.cleanup(model_name, gpu_id) evicts: the one key
\* when both arguments are given (and it is cached), else every key
cleanup_keys(insts, model_name, gpu_id) ==
    IF Truthy(model_name) /\ gpu_id # NoGpu
    THEN {cache_key(model_name, gpu_id)} \cap DOMAIN insts
    ELSE DOMAIN insts

\* the keys of seq up to and including the first whose cached runner makes
\* cleanup raise: the runners ModelRegistry.cleanup calls cleanup on
CalledUpon(seq) ==
    LET raising == {i \in 1..Len(seq) : cleanup_raises(runner[_instances[seq[i]]])}
    IN IF raising = {} THEN seq
       ELSE SubSeq(seq, 1, CHOOSE i \in raising : \A j \in raising : i <= j)

\* ModelRegistry.cleanup(model_name, gpu_id): runner.cleanup() on the
\* instances of the keys, in the order of the dict, and then their eviction
\* (lines 51 and 57).  A runner.cleanup() that raises ends the call there:
\* the instances after it are not cleaned up and nothing leaves the cache
Cleanup(t, model_name, gpu_id) ==
    /\ thread[t].pc = "idle"
    /\ thread[t].cleanup_calls < MaxCleanupCalls
    /\ LET keys == cleanup_keys(_instances, model_name, gpu_id)
           called == CalledUpon(SelectSeq(_instances_order, LAMBDA k : k \in keys))
           objs == {_instances[called[i]] : i \in 1..Len(called)}
           raises == \E i \in objs : cleanup_raises(runner[i])
       IN
       /\ runner' = [i \in DOMAIN runner |->
                        IF i \in objs
                        THEN [runner_cleanup(runner[i]) EXCEPT !.evicted = @ \/ ~raises]
                        ELSE runner[i]]
       /\ _instances' = IF raises THEN _instances
                        ELSE [k \in DOMAIN _instances \ keys |-> _instances[k]]
       /\ _instances_order' = IF raises THEN _instances_order
                              ELSE SelectSeq(_instances_order, LAMBDA k : k \notin keys)
       /\ thread' = [thread EXCEPT ![t] = [IdleThread EXCEPT
                      !.op = "cleanup", !.model_name = model_name, !.gpu_id = gpu_id,
                      !.calls = thread[t].calls,
                      !.cleanup_calls = thread[t].cleanup_calls + 1,
                      !.holds = thread[t].holds,
                      !.raised = IF raises THEN "AttributeError" ELSE None]]
    /\ UNCHANGED <<now, limiter_vars, gateway_vars, worker_vars, client_vars, storage_vars, metrics>>

\* number of cleanup calls made on one runner object by the thread that holds it
MaxCleanups == 2

\* the thread calls cleanup() on the runner it holds (BaseModelRunner.cleanup
\* is public)
CleanupRunner(t) ==
    /\ thread[t].pc = "idle"
    /\ thread[t].holds # NoRunner
    /\ runner[thread[t].holds].cleanups < MaxCleanups
    /\ runner' = [runner EXCEPT ![thread[t].holds] = runner_cleanup(@)]
    /\ thread' = [thread EXCEPT ![t] = [IdleThread EXCEPT
                      !.op = "runner.cleanup", !.calls = thread[t].calls,
                      !.cleanup_calls = thread[t].cleanup_calls,
                      !.holds = thread[t].holds,
                      !.raised = IF cleanup_raises(runner[thread[t].holds])
                                 THEN "AttributeError" ELSE None]]
    /\ UNCHANGED <<now, limiter_vars, gateway_vars, worker_vars, client_vars, storage_vars, metrics,
                   _instances, _instances_order>>

(* --------------------------- BaseModelRunner --------------------------- *)

\* number of run calls made on one runner object
MaxRuns == 3

\* how load_model, prepare, infer and postprocess of a runner class can end
StepOutcomes == {"ok", "raises"}

\* the thread leaves run with the exception a step raised
RunRaised(t, exc) ==
    thread' = [thread EXCEPT ![t].pc = "idle", ![t].raised = exc]

\* runner.run(input_data) is called on the runner the thread holds;
\* line 47: if not self.is_loaded
RunStart(t) ==
    /\ thread[t].pc = "idle"
    /\ thread[t].holds # NoRunner
    /\ runner[thread[t].holds].runs < MaxRuns
    /\ runner' = [runner EXCEPT ![thread[t].holds].runs = @ + 1]
    /\ thread' = [thread EXCEPT ![t] = [IdleThread EXCEPT
                      !.op = "run", !.calls = thread[t].calls,
                      !.cleanup_calls = thread[t].cleanup_calls, !.holds = thread[t].holds,
                      !.pc = IF runner[thread[t].holds].is_loaded THEN "prepare" ELSE "load"]]
    /\ UNCHANGED <<now, limiter_vars, gateway_vars, worker_vars, client_vars, storage_vars, metrics, _instances, _instances_order>>

\* lines 48-49: self.load_model(), then self.is_loaded = True
LoadModel(t, outcome) ==
    /\ thread[t].pc = "load"
    /\ IF outcome = "ok"
       THEN /\ runner' = [runner EXCEPT ![thread[t].holds].load_calls = @ + 1,
                                        ![thread[t].holds].model = "loaded",
                                        ![thread[t].holds].is_loaded = TRUE]
            /\ thread' = [thread EXCEPT ![t].pc = "prepare",
                                        ![t].steps = Append(@, "load_model")]
       ELSE /\ runner' = [runner EXCEPT ![thread[t].holds].load_calls = @ + 1]
            /\ RunRaised(t, "RuntimeError")
    /\ UNCHANGED <<now, limiter_vars, gateway_vars, worker_vars, client_vars, storage_vars, metrics, _instances, _instances_order>>

\* line 51: input_tensor = self.prepare(input_data)
Prepare(t, outcome) ==
    /\ thread[t].pc = "prepare"
    /\ IF outcome = "ok"
       THEN thread' = [thread EXCEPT ![t].pc = "infer", ![t].steps = Append(@, "prepare")]
       ELSE RunRaised(t, "ValueError")
    /\ UNCHANGED <<now, limiter_vars, gateway_vars, worker_vars, client_vars, storage_vars, metrics,
                   _instances, _instances_order, runner>>

\* lines 53-54: self.infer(input_tensor) under torch.no_grad(); infer calls
\* self.model, which raises when the attribute is None or deleted
Infer(t, outcome) ==
    /\ thread[t].pc = "infer"
    /\ IF runner[thread[t].holds].model # "loaded"
       THEN RunRaised(t, "AttributeError")
       ELSE IF outcome = "ok"
            THEN thread' = [thread EXCEPT ![t].pc = "postprocess",
                                          ![t].steps = Append(@, "infer")]
            ELSE RunRaised(t, "RuntimeError")
    /\ UNCHANGED <<now, limiter_vars, gateway_vars, worker_vars, client_vars, storage_vars, metrics,
                   _instances, _instances_order, runner>>

\* lines 56-58: result = self.postprocess(output_tensor); return result
Postprocess(t, outcome) ==
    /\ thread[t].pc = "postprocess"
    /\ IF outcome = "ok"
       THEN thread' = [thread EXCEPT ![t].pc = "idle", ![t].steps = Append(@, "postprocess")]
       ELSE RunRaised(t, "RuntimeError")
    /\ UNCHANGED <<now, limiter_vars, gateway_vars, worker_vars, client_vars, storage_vars, metrics,
                   _instances, _instances_order, runner>>

(* ----------------------- StorageService, local ------------------------ *)

\* number of upload_bytes calls and of download_bytes calls
MaxUploads == 2
MaxDownloads == 2

\* the contents uploaded, each a sequence of chunks the operating system
\* writes one after the other
Contents == {<<"v1/1", "v1/2">>, <<"v2/1", "v2/2">>}

\* the key the calls use
StorageKeys == {s3_key_of(uuid4(1))}

\* a bytes object
Bytes(chunks) == [kind |-> "bytes", val |-> chunks]

IdleUpload == [pc |-> "idle", key |-> <<>>, data |-> <<>>, before |-> NoneObject, calls |-> 0]
IdleDownload == [pc |-> "idle", key |-> <<>>, result |-> NoneObject, calls |-> 0]

\* what download_bytes would return for the file of key as it is now
FileBytes(key) == IF key \in DOMAIN files THEN Bytes(files[key]) ELSE NoneObject

\* upload_bytes(data, key): lines 50-53, the parents are made and
\* open(file_path, "wb") creates the file or truncates it to no bytes
UploadOpen(data, key) ==
    /\ io.up.pc = "idle"
    /\ io.up.calls < MaxUploads
    /\ files' = SetItem(files, key, <<>>)
    /\ io' = [io EXCEPT !.up = [pc |-> "write", key |-> key, data |-> data,
                                 before |-> FileBytes(key), calls |-> io.up.calls + 1]]
    /\ UNCHANGED <<now, limiter_vars, gateway_vars, worker_vars, client_vars, lib_vars, metrics>>

\* line 54, f.write(data): the next chunk reaches the file, or the write
\* fails (no space left, the process is killed) and the call ends there
UploadWrite(outcome) ==
    /\ io.up.pc = "write"
    /\ IF outcome = "ok"
       THEN LET content == Append(files[io.up.key], io.up.data[Len(files[io.up.key]) + 1]) IN
            /\ files' = SetItem(files, io.up.key, content)
            /\ io' = IF content = io.up.data
                     THEN [io EXCEPT !.up.pc = "idle"]
                     ELSE io
       ELSE /\ io' = [io EXCEPT !.up.pc = "failed"]
            /\ UNCHANGED files
    /\ UNCHANGED <<now, limiter_vars, gateway_vars, worker_vars, client_vars, lib_vars, metrics>>

\* the caller goes on after a failed upload
UploadAgain ==
    /\ io.up.pc = "failed"
    /\ io' = [io EXCEPT !.up.pc = "idle"]
    /\ UNCHANGED <<now, limiter_vars, gateway_vars, worker_vars, client_vars, lib_vars,
                   metrics, files>>

\* download_bytes(key), lines 72-76: None when the file does not exist
DownloadExists(key) ==
    /\ io.down.pc = "idle"
    /\ io.down.calls < MaxDownloads
    /\ io' = [io EXCEPT !.down =
                 [pc |-> IF key \in DOMAIN files THEN "read" ELSE "idle",
                  key |-> key, result |-> NoneObject, calls |-> io.down.calls + 1]]
    /\ UNCHANGED <<now, limiter_vars, gateway_vars, worker_vars, client_vars, lib_vars,
                   metrics, files>>

\* lines 78-79: the file is opened and read to its end
DownloadRead ==
    /\ io.down.pc = "read"
    /\ io' = [io EXCEPT !.down.pc = "idle", !.down.result = FileBytes(io.down.key)]
    /\ UNCHANGED <<now, limiter_vars, gateway_vars, worker_vars, client_vars, lib_vars,
                   metrics, files>>

(* --------------------------- specifications ---------------------------- *)

Init ==
    /\ now = 0
    /\ requests = <<>>
    /\ rl_accepted = [k \in AllKeys |-> <<>>]
    /\ rl_rejected = [k \in AllKeys |-> 0]
    /\ rl_resets = [k \in AllKeys |-> 0]
    /\ n_checks = 0
    /\ cache = <<>>
    /\ sent = <<>>
    /\ next_uuid = 1
    /\ req = [r \in Requests |-> NewRequest]
    /\ settings = [max_retries |-> 3]
    /\ broker = EmptyBag
    /\ backend = <<>>
    /\ worker = [w \in Workers |-> IdleWorker]
    /\ blob = <<>>
    /\ task_failed = 0
    /\ runs = <<>>
    /\ lost = 0
    /\ st = NoStatus
    /\ ret = NoReturn
    /\ _instances = <<>>
    /\ runner = <<>>
    /\ thread = [t \in Threads |-> IdleThread]
    /\ metrics = NoMetrics
    /\ files = <<>>
    /\ io = [up |-> IdleUpload, down |-> IdleDownload]
    /\ _instances_order = <<>>

\* the worker side starts from any configured settings.max_retries
InitWorker ==
    \E n \in ConfiguredMaxRetries :
        Init!1 /\ Init!2 /\ Init!3 /\ Init!4 /\ Init!5 /\ Init!6 /\ Init!7 /\ Init!8
        /\ Init!9 /\ Init!10 /\ settings = [max_retries |-> n]
        /\ Init!12 /\ Init!13 /\ Init!14 /\ Init!15 /\ Init!16 /\ Init!17 /\ Init!18
        /\ Init!19 /\ Init!20 /\ Init!21 /\ Init!22 /\ Init!23 /\ Init!24
        /\ Init!25 /\ Init!26 /\ Init!27

NextLimiter ==
    \/ \E key \in LimiterKeys : LimiterCheck(key)
    \/ \E key \in LimiterKeys : LimiterReset(key)
    \/ Elapse

SpecLimiter == Init /\ [][NextLimiter]_vars

NextGateway ==
    \/ \E r \in Requests, hdr \in Headers, model \in RequestModels,
          crid \in ClientRequestIds : Receive(r, hdr, model, crid)
    \/ \E r \in Requests, hdr \in Headers, body_priority \in BodyPriorities :
          ReceiveInvalid(r, hdr, body_priority)
    \/ \E r \in Requests : Lookup(r)
    \/ \E r \in Requests : Store(r)
    \/ Tick

SpecGateway == Init /\ [][NextGateway]_vars

\* how many submissions the clients of the two API keys make
MaxTenantRequests == 2

\* the clients of two API keys submit with the same client_request_id
NextTenants ==
    \/ \E r \in 1..MaxTenantRequests, hdr \in api_keys, model \in RequestModels :
          Receive(r, hdr, model, "req-1")
    \/ \E r \in 1..MaxTenantRequests : Lookup(r)
    \/ \E r \in 1..MaxTenantRequests : Store(r)
    \/ Tick

SpecTenants == Init /\ [][NextTenants]_vars

NextWorker ==
    \/ \E model \in _runners, cb \in CallbackUrls : Enqueue(model, cb)
    \/ \E w \in Workers : \E m \in BagToSet(broker) : Deliver(w, m)
    \/ \E w \in Workers, outcome \in RunOutcomes : Run(w, outcome)
    \/ \E w \in Workers, outcome \in UploadOutcomes, d \in Durations : Storage(w, outcome, d)
    \/ \E w \in Workers, outcome \in CallbackOutcomes : Callback(w, outcome)
    \/ \E w \in Workers : Return(w)
    \/ \E w \in Workers : Ack(w)
    \/ \E w \in Workers : WorkerLost(w)

SpecWorker == InitWorker /\ [][NextWorker]_vars

\* where each worker process is in its task; every step of a worker changes it
worker_pc == [w \in Workers |-> worker[w].pc]

\* the next step of worker process w: taking a queued message when it is
\* idle, else the next step of the task it runs (its pc enables one of them)
WorkerStep(w) ==
    \/ \E m \in BagToSet(broker) : Deliver(w, m)
    \/ \E outcome \in RunOutcomes : Run(w, outcome)
    \/ \E outcome \in UploadOutcomes, d \in Durations : Storage(w, outcome, d)
    \/ \E outcome \in CallbackOutcomes : Callback(w, outcome)
    \/ Return(w)
    \/ Ack(w)

\* every worker process that is alive goes on.  Nothing forces a submission
\* or the death of a process
FairWorker == \A w \in Workers : WF_worker_pc(WorkerStep(w))

SpecWorkerFair == SpecWorker /\ FairWorker

\* a client polls one task id while a worker process executes the task
NextStatus ==
    \/ \E task_id \in {uuid4(1), uuid4(2)} : StatusStart(task_id)
    \/ StatusRead
    \/ \E model \in _runners : Enqueue(model, None)
    \/ \E m \in BagToSet(broker) : Deliver(1, m)
    \/ \E outcome \in RunOutcomes : Run(1, outcome)
    \/ \E outcome \in UploadOutcomes, d \in Durations : Storage(1, outcome, d)
    \/ Return(1)
    \/ Ack(1)

SpecStatus == Init /\ [][NextStatus]_vars

\* a caller uses an IdempotencyCache by content
NextContent ==
    \/ \E request_data \in RequestData, task_id \in {uuid4(1), uuid4(2)} :
          SetByContent(request_data, task_id)
    \/ \E request_data \in RequestData : GetByContent(request_data)
    \/ Tick

SpecContent == Init /\ [][NextContent]_vars

\* a caller uses an IdempotencyCache by id
NextCache ==
    \/ \E client_request_id \in CacheIds : GetTaskId(client_request_id)
    \/ \E client_request_id \in CacheIds, task_id \in {uuid4(1), uuid4(2)} :
          SetTaskId(client_request_id, task_id)
    \/ Elapse

SpecCache == Init /\ [][NextCache]_vars

\* the threads of one process use the registry
NextRegistry ==
    \/ \E t \in Threads, model_name \in ConfigModels, gpu_id \in GpuIds :
          GetOrCreate(t, model_name, gpu_id)
    \/ \E t \in Threads : CheckCached(t)
    \/ \E t \in Threads : CreateRunner(t)
    \/ \E t \in Threads : StoreRunner(t)
    \/ \E t \in Threads : ReturnRunner(t)
    \/ \E t \in Threads, model_name \in CleanupModels, gpu_id \in CleanupGpuIds :
          Cleanup(t, model_name, gpu_id)

SpecRegistry == Init /\ [][NextRegistry]_vars

\* one worker process: it gets a runner from the registry and runs the runner
\* it holds one call at a time; the registry is cleaned up between runs
NextRunner ==
    \/ \E model_name \in _runners : GetOrCreate(1, model_name, 0)
    \/ CheckCached(1)
    \/ CreateRunner(1)
    \/ StoreRunner(1)
    \/ ReturnRunner(1)
    \/ RunStart(1)
    \/ \E outcome \in StepOutcomes : LoadModel(1, outcome)
    \/ \E outcome \in StepOutcomes : Prepare(1, outcome)
    \/ \E outcome \in StepOutcomes : Infer(1, outcome)
    \/ \E outcome \in StepOutcomes : Postprocess(1, outcome)
    \/ \E model_name \in CleanupModels, gpu_id \in CleanupGpuIds :
          Cleanup(1, model_name, gpu_id)

SpecRunner == Init /\ [][NextRunner]_vars

\* one process whose thread also cleans up the runner it holds itself
NextCleanup ==
    \/ \E model_name \in _runners : GetOrCreate(1, model_name, 0)
    \/ CheckCached(1)
    \/ CreateRunner(1)
    \/ StoreRunner(1)
    \/ ReturnRunner(1)
    \/ RunStart(1)
    \/ \E outcome \in StepOutcomes : LoadModel(1, outcome)
    \/ \E outcome \in StepOutcomes : Prepare(1, outcome)
    \/ \E outcome \in StepOutcomes : Infer(1, outcome)
    \/ \E outcome \in StepOutcomes : Postprocess(1, outcome)
    \/ \E model_name \in CleanupModels, gpu_id \in CleanupGpuIds :
          Cleanup(1, model_name, gpu_id)
    \/ CleanupRunner(1)

SpecCleanup == Init /\ [][NextCleanup]_vars

\* an uploader and a downloader use the local StorageService at once
NextStorage ==
    \/ \E data \in Contents, key \in StorageKeys : UploadOpen(data, key)
    \/ \E outcome \in StepOutcomes : UploadWrite(outcome)
    \/ UploadAgain
    \/ \E key \in StorageKeys : DownloadExists(key)
    \/ DownloadRead

SpecStorage == Init /\ [][NextStorage]_vars

(* ------------------------------- claims -------------------------------- *)

Done(r) == req[r].pc = "done"

\* the messages of the broker that carry task id t
MessagesOf(t) == {i \in DOMAIN sent : sent[i].task_id = t}

ExpectedQueue == [high |-> "gpu-high", normal |-> "gpu-normal", low |-> "gpu-low"]
ExpectedPriority == [high |-> 9, normal |-> 5, low |-> 1]

\* C3: a submission answered 202 that is no replay has published exactly one
\* message, on queue "gpu-"+priority with priority 9/5/1 and the task_id of the
\* answer; a submission answered 401, 429, 400 or replayed has published none,
\* and the broker holds no message that no submission published.
C3_OnePublishPerAccepted ==
    /\ \A r \in Requests :
          Done(r) =>
             IF req[r].status = 202 /\ ~req[r].replay
             THEN /\ req[r].published = 1
                  /\ Cardinality(MessagesOf(req[r].task_id)) = 1
                  /\ \A i \in MessagesOf(req[r].task_id) :
                        /\ sent[i].queue = ExpectedQueue[req[r].priority]
                        /\ sent[i].priority = ExpectedPriority[req[r].priority]
                        /\ sent[i].model = req[r].model
                        /\ sent[i].callback_url = req[r].callback_url
             ELSE /\ req[r].published = 0
                  /\ req[r].status \in {401, 429, 400, 422, 500, 202}
    /\ \A i \in DOMAIN sent :
          \E r \in Requests : /\ req[r].published = 1
                              /\ req[r].task_id = sent[i].task_id
                              /\ req[r].pc \in {"store", "done"}
    /\ Len(sent) = Cardinality({r \in Requests : req[r].published = 1})

C3_Witness ==
    \E r, q \in Requests :
        /\ Done(r) /\ req[r].status = 202 /\ ~req[r].replay /\ req[r].priority = "high"
        /\ Done(q) /\ req[q].status = 202 /\ req[q].replay
        /\ Len(sent) = 1

\* C4: a submission whose x-api-key is missing or not in the allowlist is
\* answered 401 and has published nothing, debited no rate-limit slot and
\* neither read nor written the idempotency cache; the step that answers 401
\* leaves the buckets, the cache and the broker as they were.
C4_Unauthorized ==
    /\ [](\A r \in Requests :
            (Done(r) /\ req[r].api_key \notin api_keys)
               => /\ req[r].status = 401
                  /\ req[r].published = 0 /\ req[r].debits = 0
                  /\ req[r].cache_reads = 0 /\ req[r].cache_writes = 0)
    /\ [][\A r \in Requests :
            (req[r].pc = "new" /\ req'[r].pc # "new" /\ req'[r].api_key \notin api_keys)
               => (requests' = requests /\ cache' = cache /\ sent' = sent)]_vars

C4_Witness ==
    /\ \E r \in Requests : Done(r) /\ req[r].api_key = "wrong-key" /\ req[r].status = 401
    /\ \E r \in Requests : Done(r) /\ req[r].api_key = None /\ req[r].status = 401
    /\ Len(sent) > 0

\* C5 as stated: a submission that passed auth and the rate limit and names
\* an unregistered model is answered 400 and publishes nothing, also when its
\* client_request_id has a live idempotency entry.
C5_UnknownModel400 ==
    \A r \in Requests :
        (Done(r) /\ req[r].debits = 1 /\ req[r].model \notin _runners)
            => (req[r].status = 400 /\ req[r].published = 0)

\* C5 amended: such a submission publishes nothing; it is answered 400 unless
\* its client_request_id has a live idempotency entry at the lookup, and then
\* it is answered 202 with the stored task_id.
C5_UnknownModelUnlessReplay ==
    \A r \in Requests :
        (Done(r) /\ req[r].debits = 1 /\ req[r].model \notin _runners)
            => /\ req[r].published = 0
               /\ IF req[r].replay
                  THEN req[r].status = 202 /\ MessagesOf(req[r].task_id) # {}
                  ELSE req[r].status = 400 /\ req[r].task_id = NoTask

C5_Witness ==
    \E r, q \in Requests :
        /\ Done(r) /\ req[r].model = "invalid-model" /\ req[r].status = 400
        /\ req[r].client_request_id = "req-1"
        /\ Done(q) /\ req[q].model = "invalid-model" /\ req[q].status = 202

\* C6: for every key never reset and every window of WindowTicks with both
\* ends included, at most RequestsPerMinute checks were accepted inside it.
C6_WindowCap ==
    \A k \in LimiterKeys :
        rl_resets[k] = 0 =>
            \A s \in 0..MaxTime :
                Cardinality({i \in DOMAIN rl_accepted[k] :
                                s <= rl_accepted[k][i] /\ rl_accepted[k][i] <= s + WindowTicks})
                    <= RequestsPerMinute

\* the model a task id was enqueued with
ModelOf(t) == sent[CHOOSE i \in DOMAIN sent : sent[i].task_id = t].model

\* the result mapping of the envelope stored for task t
StoredResult(t) == backend[t].result.result

NoRawBytes(result) == \A k \in DOMAIN result : result[k].kind # "bytes"

C8_TerminalImmutable ==
    [][\A t \in DOMAIN backend :
          backend[t].state \in {"SUCCESS", "FAILURE"}
             => (backend'[t].state = backend[t].state
                 /\ backend'[t].result = backend[t].result)]_vars

\* C9: a task whose every execution raised (none lost, none returned) has
\* been executed at most 1 + settings.max_retries times; it is RETRY after
\* each execution but the last and FAILURE, with the last exception as its
\* error, after the last.
C9_RetryBound ==
    \A t \in DOMAIN runs :
        (/\ runs[t].raised > 0 /\ runs[t].raised = runs[t].started
         /\ runs[t].lost = 0 /\ runs[t].returned = 0)
            => /\ runs[t].started <= 1 + settings.max_retries
               /\ IF runs[t].started = 1 + settings.max_retries
                  THEN StateOf(t) = "FAILURE" /\ backend[t].result = runs[t].last_exc
                  ELSE StateOf(t) = "RETRY" /\ backend[t].result = runs[t].last_exc

\* C10: whatever the callback POST does, the execution goes on to return the
\* envelope it built, which is stored as SUCCESS: the POST publishes no retry,
\* writes no result and counts no failure, and is made at most once in an
\* execution.
C10_CallbackNeverFails ==
    /\ [](\A w \in Workers : worker[w].posts <= 1)
    /\ [][\A w \in Workers :
            (worker[w].pc = "callback" /\ worker'[w].pc \notin {"callback", "idle"})
               => /\ worker'[w].pc = "return"
                  /\ worker'[w].posts = 1
                  /\ worker'[w].response = worker[w].response
                  /\ broker' = broker /\ backend' = backend
                  /\ task_failed' = task_failed]_vars
    /\ [][\A w \in Workers :
            (worker[w].pc = "return" /\ worker'[w].pc \notin {"return", "idle"})
               => /\ worker[w].response.status = "SUCCESS"
                  /\ backend'[worker[w].msg.task_id].state = "SUCCESS"
                  /\ backend[worker[w].msg.task_id].state # "SUCCESS"
                       => backend'[worker[w].msg.task_id].result = worker[w].response]_vars

C10_Witness ==
    \E w \in Workers :
        /\ worker[w].pc = "ack"
        /\ worker[w].cb_outcome = "SoftTimeLimitExceeded"
        /\ worker[w].posts = 1
        /\ StateOf(worker[w].msg.task_id) = "SUCCESS"
        /\ backend[worker[w].msg.task_id].result = worker[w].response

\* GET /v1/tasks/{task_id} answered with what line 146-180 build from meta
Answers(meta) ==
    /\ st.response.status = meta.state
    /\ st.response.has = CASE meta.state = "SUCCESS" -> {"timing", "result"}
                           [] meta.state \in {"FAILURE", "RETRY"} -> {"error"}
                           [] OTHER -> {}
    /\ meta.state = "SUCCESS" => /\ st.response.timing = meta.result.timing
                                 /\ st.response.result = meta.result.result
    /\ meta.state \in {"FAILURE", "RETRY"} =>
          st.response.error = meta.result.text

\* C11: the answer of GET /v1/tasks/{task_id} is the view of one state the
\* result store held when the handler read it: status is that state, timing
\* and result are present exactly with SUCCESS and are the envelope's, error
\* is present exactly with FAILURE or RETRY and is the stored exception's text.
C11_StatusIsStoreState ==
    st.pc = "done" => \E i \in DOMAIN st.reads : Answers(st.reads[i])

\* the checks accepted for key k less than a window ago
Recent(k) ==
    Cardinality({i \in DOMAIN rl_accepted[k] : rl_accepted[k][i] > now - WindowTicks})

\* C12: for a key never reset, a check is accepted when fewer than
\* RequestsPerMinute checks were accepted within the window and rejected (429)
\* when RequestsPerMinute were; right after reset(key) a check for key would
\* be accepted, and reset(key) leaves the bucket of every other key as it was.
C12_LimitThenReset ==
    /\ [][\A k \in LimiterKeys :
            (rl_resets[k] = 0 /\ rl_accepted'[k] # rl_accepted[k])
               => Recent(k) < RequestsPerMinute]_vars
    /\ [][\A k \in LimiterKeys :
            (rl_resets[k] = 0 /\ rl_rejected'[k] # rl_rejected[k])
               => Recent(k) >= RequestsPerMinute]_vars
    /\ [][\A k \in LimiterKeys :
            rl_resets'[k] # rl_resets[k]
               => /\ check_rate_limit(requests', k, now').ok
                  /\ \A j \in LimiterKeys \ {k} :
                        Bucket(requests', j) = Bucket(requests, j)]_vars

C12_Witness ==
    \E k \in LimiterKeys : \E j \in LimiterKeys \ {k} :
        /\ now = 0
        /\ rl_rejected[k] = 1 /\ rl_resets[k] = 1
        /\ Len(rl_accepted[k]) = RequestsPerMinute + 1
        /\ Len(Bucket(requests, k)) = 1
        /\ Len(Bucket(requests, j)) = 1

\* the set_by_content calls made so far with the dict of the last call
StoredFor(d) == {i \in DOMAIN ret.log : ret.log[i].data = d}

\* C13: get_by_content(r) returns none when no set_by_content was made with
\* the dict r, and returns the task id of the last set_by_content(r, x) when
\* that one is less than the TTL old, in whatever key order r was written in
\* the two calls.
C13_ContentRoundTrip ==
    ret.op = "get_by_content" =>
        IF StoredFor(ret.arg) = {}
        THEN ret.value = NoTask
        ELSE LET last == CHOOSE i \in StoredFor(ret.arg) :
                            \A j \in StoredFor(ret.arg) : j <= i
             IN ret.at - ret.log[last].at < TtlTicks
                   => ret.value = ret.log[last].task_id

C13_Witness ==
    /\ ret.op = "get_by_content"
    /\ \E i \in StoredFor(ret.arg) :
          /\ ret.log[i].written # ret.written
          /\ ret.value = ret.log[i].task_id
    /\ Len(ret.log) = 2
    /\ \E i \in DOMAIN ret.log : ret.log[i].data # ret.arg

\* C14: a submission with a valid key whose priority is none of high, normal,
\* low is answered 400 and publishes nothing; one that omits priority and is
\* accepted is published on gpu-normal with priority 5.
C14_InvalidPriority400 ==
    \A r \in Requests :
        (Done(r) /\ req[r].api_key \in api_keys) =>
            /\ ~validates(req[r].body_priority)
                  => (req[r].status = 400 /\ req[r].published = 0)
            /\ (req[r].body_priority = None /\ req[r].published = 1)
                  => \A i \in MessagesOf(req[r].task_id) :
                        sent[i].queue = "gpu-normal" /\ sent[i].priority = 5

\* the task ids the dispatcher can issue
TaskIds == {uuid4(n) : n \in 1..MaxTasks}

\* C15: with workers that go on and finitely many lost processes, every
\* published task eventually is SUCCESS or FAILURE in the result store, also
\* after a worker process died while executing it.
C15_EventuallyTerminal ==
    \A t \in TaskIds :
        (t \in DOMAIN runs) ~> (StateOf(t) \in {"SUCCESS", "FAILURE"})

C15_Witness ==
    \E t \in DOMAIN runs :
        /\ runs[t].lost = 1
        /\ runs[t].started = 2
        /\ StateOf(t) = "SUCCESS"
        /\ \A w \in Workers : worker[w].pc = "idle"

\* the moves of a task's state that the result store may make
StateMoves ==
    { <<"PENDING", "STARTED">>, <<"STARTED", "SUCCESS">>,
      <<"STARTED", "FAILURE">>, <<"STARTED", "RETRY">>,
      <<"RETRY", "STARTED">> }

\* C16: the state of a task in the result store only moves along
\* PENDING -> STARTED, STARTED -> SUCCESS, STARTED -> FAILURE,
\* STARTED -> RETRY and RETRY -> STARTED; nothing leaves SUCCESS or FAILURE.
C16_StateMoves ==
    [][\A t \in TaskIds :
          LET old == StateOf(t)
              new == IF t \in DOMAIN backend' THEN backend'[t].state ELSE "PENDING"
          IN  new # old => <<old, new>> \in StateMoves]_vars

\* the outcomes of httpx.post with which the receiver has got the callback
Delivered == {"2xx", "non-2xx"}

\* C17: the callback of a task is sent only after its terminal result was
\* written: when a worker has just delivered the callback of a task, the
\* result store says SUCCESS for the task with the envelope that was posted.
C17_CallbackAfterResult ==
    \A w \in Workers :
        (worker[w].pc = "return" /\ worker[w].posts > 0
            /\ worker[w].cb_outcome \in Delivered)
        => /\ StateOf(worker[w].msg.task_id) = "SUCCESS"
           /\ backend[worker[w].msg.task_id].result = worker[w].response

\* the handler of slot r has got past rate_limiter.check_rate_limit
Accepted(r) == req[r].pc # "new" /\ req[r].status \notin {401, 422, 429}

\* C18: the checks of a submission run in the order auth, rate limit,
\* idempotency lookup, model validity, enqueue, idempotency store.  The step
\* in which the limiter accepts a submission appends one timestamp to the
\* bucket of its key, no later step of the handler touches the buckets, and a
\* 401 leaves them alone; a submission answered 429 has looked nothing up,
\* published nothing and stored nothing; an unknown model is answered 400
\* only after the lookup, and an entry is stored only after the publish.
C18_CheckOrder ==
    /\ [][\A r \in Requests :
            LET k == req'[r].api_key IN
            /\ (req[r].pc = "new" /\ Accepted(r)')
                  => Bucket(requests', k) = Append(trim(Bucket(requests, k), now), now)
            /\ (req[r].pc = "new" /\ req'[r].status = 429)
                  => /\ Bucket(requests', k) = trim(Bucket(requests, k), now)
                     /\ cache' = cache /\ sent' = sent /\ broker' = broker
            /\ (req[r].pc = "new" /\ req'[r].status = 401) => requests' = requests
            /\ (req[r].pc \in {"lookup", "store"} /\ req'[r] # req[r])
                  => requests' = requests]_vars
    /\ [](\A r \in Requests :
            Done(r) =>
               /\ req[r].status = 429
                     => /\ req[r].cache_reads = 0 /\ req[r].published = 0
                        /\ req[r].cache_writes = 0 /\ req[r].task_id = NoTask
               /\ req[r].status \in {202, 400} => req[r].debits = 1
               /\ req[r].status = 401 => req[r].debits = 0
               /\ (req[r].status \in {202, 400} /\ Truthy(req[r].client_request_id))
                     => req[r].cache_reads = 1
               /\ req[r].cache_writes > 0 => req[r].published = 1)

\* a replay was answered 202 with the stored task_id and took the last slot
\* of its key; the next replay, its entry still live, was answered 429
C18_Witness ==
    \E a, b, c \in Requests :
        /\ Done(a) /\ Done(b) /\ Done(c)
        /\ req[a].api_key = req[c].api_key /\ req[b].api_key = req[c].api_key
        /\ req[a].cache_writes = 1 /\ req[a].debits = 1
        /\ req[b].status = 202 /\ req[b].replay /\ req[b].debits = 1
        /\ req[b].task_id = req[a].task_id
        /\ req[c].status = 429 /\ req[c].client_request_id = req[a].client_request_id
        /\ req[c].client_request_id \in DOMAIN cache
        /\ cache[req[c].client_request_id][1] = req[a].task_id
        /\ now - cache[req[c].client_request_id][2] < TtlTicks

\* the entries of the cache that are older than the TTL at instant t
Expired(c, t) == {k \in DOMAIN c : t - c[k][2] > TtlTicks}

\* C19: every operation of the cache evicts the expired entries first: right
\* after a get_task_id or a set_task_id call no entry of the cache is older
\* than the TTL.
C19_EveryCallEvicts ==
    [][ret'.calls # ret.calls => Expired(cache', now') = {}]_vars

\* the task ids the gateway has issued so far
Issued == {sent[i].task_id : i \in DOMAIN sent}

\* C20: the lookup of a submission returns the stored task_id exactly when
\* the cache holds an entry for its id that is younger than the TTL, and the
\* hit leaves the entry and its timestamp as they were; otherwise (no entry,
\* or one of age TTL or more) the entry is gone after the lookup and the
\* submission, if its model is known and the broker takes the message, is
\* published as a new task under a
\* task_id never issued before.
C20_HonoredUntilTtl ==
    [][\A r \in Requests :
          (req[r].pc = "lookup" /\ req'[r].pc # "lookup")
          => LET id == req[r].client_request_id IN
             IF id \in DOMAIN cache /\ now - cache[id][2] < TtlTicks
             THEN /\ req'[r].status = 202 /\ req'[r].replay
                  /\ req'[r].task_id = cache[id][1]
                  /\ req'[r].published = 0 /\ sent' = sent
                  /\ id \in DOMAIN cache' /\ cache'[id] = cache[id]
             ELSE /\ id \notin DOMAIN cache'
                  /\ ~req'[r].replay
                  /\ \/ req'[r].status \in {400, 500} /\ sent' = sent
                     \/ /\ req'[r].published = 1
                        /\ req'[r].task_id \notin Issued
                        /\ Issued' = Issued \cup {req'[r].task_id}]_vars

\* an id stored at instant 0 was replayed and, TTL later, the next submission
\* with that id was published as a new task
C20_Witness ==
    \E a, b, c \in Requests :
        /\ Done(a) /\ Done(b) /\ Done(c)
        /\ req[a].cache_writes = 1 /\ req[a].stored_at = 0
        /\ req[b].replay /\ req[b].task_id = req[a].task_id /\ a \in req[b].after
        /\ req[c].client_request_id = req[a].client_request_id
        /\ {a, b} \subseteq req[c].after
        /\ req[c].status = 202 /\ ~req[c].replay /\ req[c].published = 1
        /\ req[c].task_id # req[a].task_id
        /\ req[c].stored_at = TtlTicks

\* the runner objects constructed for key k that no cleanup has evicted
LiveRunners(k) ==
    {i \in DOMAIN runner : cache_key(runner[i].model_name, runner[i].gpu_id) = k
                            /\ ~runner[i].evicted}

\* C21: however the get_or_create_runner calls of one process interleave,
\* the constructor has run once for each key (between two evictions of it)
\* and the callers of a key got the same instance.
C21_OneRunnerPerKey ==
    /\ \A model_name \in ConfigModels, gpu_id \in GpuIds :
          Cardinality(LiveRunners(cache_key(model_name, gpu_id))) <= 1
    /\ \A t, u \in Threads :
          (/\ thread[t].returned # NoRunner /\ thread[u].returned # NoRunner
           /\ thread[t].model_name = thread[u].model_name
           /\ thread[t].gpu_id = thread[u].gpu_id
           /\ ~runner[thread[t].returned].evicted
           /\ ~runner[thread[u].returned].evicted)
          => thread[t].returned = thread[u].returned

\* thread t makes a ModelRegistry.cleanup call in this step
CleanupStep(t) == thread'[t].cleanup_calls # thread[t].cleanup_calls

\* runner object i has had its cleanup() called once more and is not loaded
CleanedUp(i) ==
    /\ runner'[i].cleanups = runner[i].cleanups + 1
    /\ ~runner'[i].is_loaded

RunOrders ==
    LET full == <<"load_model", "prepare", "infer", "postprocess">> IN
    {SubSeq(full, 1, n) : n \in 0..4} \cup {SubSeq(full, 2, n) : n \in 1..4}

\* C23: in a run call prepare, infer and postprocess execute in that order
\* and only on a runner whose load_model has completed since it was created
\* or last cleaned up; load_model is not called on a runner that holds its
\* model; after a cleanup is_loaded is false, and it stays false when
\* load_model raises; a run of a runner that is not loaded starts with
\* load_model.
C23_LoadBeforeUse ==
    /\ [][\A t \in Threads :
            /\ (thread[t].pc \in {"prepare", "infer", "postprocess"} /\ thread'[t] # thread[t])
                  => runner[thread[t].holds].model = "loaded"
            /\ (thread[t].pc = "load" /\ thread'[t] # thread[t])
                  => /\ runner[thread[t].holds].model # "loaded"
                     /\ runner'[thread[t].holds].load_calls
                           = runner[thread[t].holds].load_calls + 1
                     /\ thread'[t].raised # None => ~runner'[thread[t].holds].is_loaded
            /\ (thread[t].pc = "idle" /\ thread'[t].pc \in {"load", "prepare"})
                  => (thread'[t].pc = "load") = (runner[thread[t].holds].model # "loaded")]_vars
    /\ [][\A i \in DOMAIN runner :
            /\ runner'[i].cleanups # runner[i].cleanups => ~runner'[i].is_loaded
            /\ runner'[i].load_calls # runner[i].load_calls
                  => \E t \in Threads : thread[t].pc = "load" /\ thread[t].holds = i]_vars
    /\ [](\A t \in Threads : thread[t].steps \in RunOrders)

\* a runner was run twice with one load, cleaned up, and its third run has
\* loaded the model again and gone through the three steps
C23_Witness ==
    \E i \in DOMAIN runner :
        /\ runner[i].runs = 3 /\ runner[i].cleanups = 1 /\ runner[i].load_calls = 2
        /\ thread[1].holds = i /\ thread[1].pc = "idle" /\ thread[1].raised = None
        /\ thread[1].steps = <<"load_model", "prepare", "infer", "postprocess">>

\* the objects of the blob store written for task t
ObjectsOf(t) == {k \in DOMAIN blob : k[2] = t}

\* C24: the artifact key is a function of the task_id alone.  Every upload of
\* an execution of task t writes the key results/{t}.png, so that the blob
\* store holds at most one object for t however often t was executed, and
\* different task_ids have different keys.
C24_OneKeyPerTask ==
    /\ [][\A w \in Workers :
            (worker[w].pc = "storage" /\ worker'[w] # worker[w] /\ blob' # blob)
               => /\ DOMAIN blob' = DOMAIN blob \cup {s3_key_of(worker[w].msg.task_id)}
                  /\ \A k \in DOMAIN blob \ {s3_key_of(worker[w].msg.task_id)} :
                        blob'[k] = blob[k]]_vars
    /\ [](\A t \in DOMAIN runs :
            /\ Cardinality(ObjectsOf(t)) <= 1
            /\ runs[t].uploads > 0 => ObjectsOf(t) = {s3_key_of(t)})
    /\ [](\A m, n \in 1..(MaxTasks + 1) :
            m # n => s3_key_of(uuid4(m)) # s3_key_of(uuid4(n)))

\* a task was executed again after its artifact was uploaded, the second
\* execution uploaded it too, and the store holds the one object
C24_Witness ==
    \E t \in DOMAIN runs :
        /\ runs[t].uploads = 2 /\ runs[t].started = 2
        /\ DOMAIN blob = {s3_key_of(t)}

\* the tasks that reach FAILURE in this step
NewFailures == {t \in TaskIds : StateOf(t) # "FAILURE" /\ StateOf(t)' = "FAILURE"}

\* C25: task_failed counts the failed tasks: a step adds one to it for each
\* task that reaches FAILURE in that step, and nothing for an attempt that
\* raises and is retried or for a task that succeeds.
C25_FailedCountsFailures ==
    [][task_failed' = task_failed + Cardinality(NewFailures)]_vars

\* the submissions answered with HTTP status code
Answered(code) == {r \in Requests : Done(r) /\ req[r].status = code}

\* C26: the gateway counters track its outcomes: auth_failures is the number
\* of requests answered 401, rate_limit_exceeded{api_key} the number answered
\* 429 for that key, and task_submitted{model,priority} the number of
\* submissions answered after publishing a message of that model and
\* priority (a replay publishes none).
C26_CountersTrack ==
    /\ value(metrics, "auth_failures", <<>>) = Cardinality(Answered(401))
    /\ \A k \in Headers :
          value(metrics, "rate_limit_exceeded", k)
             = Cardinality({r \in Answered(429) : req[r].api_key = k})
    /\ \A model \in RequestModels, priority \in Priorities :
          value(metrics, "task_submitted", <<model, priority>>)
             = Cardinality({r \in Answered(202) : /\ req[r].published = 1
                                                   /\ req[r].model = model
                                                   /\ req[r].priority = priority})

\* C27: upload_bytes of the local backend is atomic for readers: what a
\* download_bytes returns is none or the complete content of an upload,
\* never an empty or partial object, and an upload that failed midway has
\* left the key with the content it had before.
C27_UploadAtomic ==
    /\ io.down.result \in {NoneObject} \cup {Bytes(c) : c \in Contents}
    /\ io.up.pc = "failed" => FileBytes(io.up.key) = io.up.before

\* C28: every task_id the idempotency cache holds is the task_id of a
\* message that was published: a submission whose send_task raised is
\* answered 500 and has stored nothing, so a replay is never answered with a
\* task_id no worker will run.
C28_CachedWasPublished ==
    /\ \A id \in DOMAIN cache : cache[id][1] \in Issued
    /\ \A r \in Requests :
          /\ (Done(r) /\ req[r].status = 500)
                => req[r].published = 0 /\ req[r].cache_writes = 0
          /\ (Done(r) /\ req[r].status = 202 /\ req[r].replay)
                => req[r].task_id \in Issued

\* the enqueue of a submission raised, and a later submission with the same
\* client_request_id was published as a new task and stored
C28_Witness ==
    \E a, b \in Requests :
        /\ Done(a) /\ req[a].status = 500 /\ req[a].client_request_id = "req-1"
        /\ Done(b) /\ a < b /\ req[b].client_request_id = "req-1"
        /\ req[b].status = 202 /\ ~req[b].replay /\ req[b].published = 1
        /\ req[b].cache_reads = 1 /\ req[b].cache_writes = 1
        /\ "req-1" \in DOMAIN cache /\ cache["req-1"][1] = req[b].task_id

\* a check or a reset on key j is made in this step
Touched(j) ==
    \/ rl_accepted'[j] # rl_accepted[j]
    \/ rl_rejected'[j] # rl_rejected[j]
    \/ rl_resets'[j] # rl_resets[j]

\* the accepted check of key k that has to leave the window before another
\* check is accepted: the RequestsPerMinute-th last, 0 when there is none
Oldest(k) ==
    IF Len(rl_accepted[k]) < RequestsPerMinute THEN 0
    ELSE Len(rl_accepted[k]) - RequestsPerMinute + 1

\* C29: a rejected check adds no timestamp to the bucket of its key, and a
\* key (never reset) is accepted again as soon as the oldest accepted check
\* of its full window is more than the window old, whatever checks were
\* rejected in between; a check or a reset on one key leaves the bucket of
\* every other key, and so the answer a check on it gets, unchanged.
C29_RejectedNotCounted ==
    /\ [][\A k \in LimiterKeys :
            rl_rejected'[k] # rl_rejected[k]
               => /\ Bucket(requests', k) = trim(Bucket(requests, k), now)
                  /\ Len(Bucket(requests', k)) <= Len(Bucket(requests, k))]_vars
    /\ [](\A k \in LimiterKeys :
            (rl_resets[k] = 0
               /\ (Oldest(k) = 0 \/ now - rl_accepted[k][Oldest(k)] > WindowTicks))
            => check_rate_limit(requests, k, now).ok)
    /\ [][\A j \in LimiterKeys :
            Touched(j) => \A k \in LimiterKeys \ {j} :
                            /\ Bucket(requests', k) = Bucket(requests, k)
                            /\ check_rate_limit(requests', k, now').ok
                                  = check_rate_limit(requests, k, now).ok]_vars

\* a key at its limit was rejected twice and, once its accepted checks were
\* more than the window old, accepted again
C29_Witness ==
    \E k \in LimiterKeys :
        /\ rl_resets[k] = 0 /\ rl_rejected[k] = 2
        /\ Len(rl_accepted[k]) = RequestsPerMinute + 1
        /\ rl_accepted[k][RequestsPerMinute + 1] = now
        /\ now - rl_accepted[k][RequestsPerMinute] > WindowTicks

\* the idempotency entry of slot r's client_request_id is live
LiveEntry(r) ==
    /\ req[r].client_request_id \in DOMAIN cache
    /\ now - cache[req[r].client_request_id][2] < TtlTicks

\* C30: the idempotency lookup is keyed by client_request_id alone.  A
\* submission whose client_request_id has a live entry at its lookup is
\* answered 202 with the stored task_id and publishes nothing, whichever
\* valid API key sent it and whatever model it names.
C30_KeyedByRequestIdAlone ==
    [][\A r \in Requests :
          (req[r].pc = "lookup" /\ req'[r].pc # "lookup" /\ LiveEntry(r))
             => /\ req'[r].status = 202
                /\ req'[r].task_id = cache[req[r].client_request_id][1]
                /\ req'[r].published = 0 /\ sent' = sent /\ broker' = broker]_vars

\* a task stored by one API key was returned to a submission of another key
\* that names a model which is not registered
C30_Witness ==
    \E a, b \in Requests :
        /\ Done(a) /\ req[a].cache_writes = 1
        /\ Done(b) /\ req[b].replay /\ req[b].status = 202
        /\ req[b].task_id = req[a].task_id
        /\ req[b].api_key # req[a].api_key
        /\ req[b].model \notin _runners

\* worker w's execution leaves the storage phase by raising: the upload of
\* the artifact failed
UploadRaised(w) ==
    /\ worker[w].pc = "storage" /\ worker'[w] # worker[w]
    /\ worker'[w].pc = "ack"

\* C31: a SUCCESS envelope in the result store that carries an artifact key
\* names the key of its task, and the object was in the blob store before the
\* envelope was returned.  An execution whose upload raises builds no envelope
\* and never returns: with retries left the task is published again and
\* reported RETRY, with the retries used up nothing is published and the task
\* is reported FAILURE; an entry that already said SUCCESS stays as it was.
C31_KeyAfterUpload ==
    /\ [](\A t \in DOMAIN backend :
            (backend[t].state = "SUCCESS" /\ "s3_key" \in DOMAIN backend[t].result.result)
               => /\ backend[t].result.result["s3_key"].val = s3_key_of(t)
                  /\ "image_bytes" \notin DOMAIN backend[t].result.result
                  /\ s3_key_of(t) \in DOMAIN blob)
    /\ [][\A w \in Workers :
            (worker[w].pc = "return" /\ worker'[w] # worker[w] /\ worker'[w].pc = "ack"
                /\ "s3_key" \in DOMAIN worker[w].response.result)
               => s3_key_of(worker[w].msg.task_id) \in DOMAIN blob]_vars
    /\ [][\A w \in Workers :
            UploadRaised(w)
               => LET m == worker[w].msg
                      t == m.task_id
                  IN /\ worker'[w].response = NoneObject
                     /\ runs'[t].returned = runs[t].returned
                     /\ runs'[t].last_exc = Exception("BlobUploadError")
                     /\ IF StateOf(t) = "SUCCESS"
                        THEN backend' = backend
                        ELSE /\ backend'[t].result = Exception("BlobUploadError")
                             /\ backend'[t].state =
                                   IF m.retries < retry_kwargs_max_retries
                                   THEN "RETRY" ELSE "FAILURE"
                     /\ broker' = IF m.retries < retry_kwargs_max_retries
                                  THEN Queued(broker, [m EXCEPT !.retries = @ + 1])
                                  ELSE broker]_vars

\* a task whose first upload raised was retried, and the retry uploaded the
\* artifact and returned: the store reports SUCCESS with the key of the object
C31_Witness ==
    \E t \in DOMAIN backend :
        /\ backend[t].state = "SUCCESS"
        /\ "s3_key" \in DOMAIN backend[t].result.result
        /\ runs[t].raised = 1 /\ runs[t].last_exc = Exception("BlobUploadError")
        /\ runs[t].uploads = 1 /\ runs[t].returned = 1
        /\ s3_key_of(t) \in DOMAIN blob

\* cleanup() is called on runner object i in this step
CleanupCalled(i) == runner'[i].cleanups # runner[i].cleanups

\* thread t calls cleanup() on the runner it holds in this step
DirectCleanup(t) ==
    /\ thread[t].pc = "idle" /\ thread[t].holds # NoRunner
    /\ thread'[t].op = "runner.cleanup"
    /\ CleanupCalled(thread[t].holds)
    /\ \A u \in Threads : ~CleanupStep(u)

\* C32: BaseModelRunner.cleanup is safe in every runner state and idempotent.
\* A cleanup() call on a runner, by the thread that holds it or by
\* ModelRegistry.cleanup, returns without raising and leaves is_loaded false,
\* whether the runner was never loaded, is loaded or was cleaned up before;
\* and ModelRegistry.cleanup() without arguments returns without raising and
\* leaves the cache empty.
C32_CleanupIdempotent ==
    [][\A t \in Threads :
          /\ DirectCleanup(t)
                => /\ thread'[t].raised = None
                   /\ ~runner'[thread[t].holds].is_loaded
          /\ CleanupStep(t)
                => /\ thread'[t].raised = None
                   /\ \A i \in DOMAIN runner : CleanupCalled(i) => ~runner'[i].is_loaded
                   /\ ~(Truthy(thread'[t].model_name) /\ thread'[t].gpu_id # NoGpu)
                         => _instances' = <<>>]_vars

====
